---- MODULE Spec2Model ----
(***************************************************************************)
(* Model of main.go: the EC2 running-instance counter that walks the       *)
(* profile x region product twice, first in a nested loop and then with    *)
(* one goroutine per pair joined by a sync.WaitGroup.                      *)
(*                                                                         *)
(* Strings that the code takes apart are modelled by their parts: an ini   *)
(* section name is [prefix, rest], so that strings.HasPrefix and           *)
(* strings.TrimPrefix are computed and not assumed.  An output line is a   *)
(* record of the values its format string prints.                          *)
(*                                                                         *)
(* The environment is the configuration file, chosen in Init, and the      *)
(* answers of the AWS SDK, chosen anew at each call of listEC2Instances:   *)
(* LoadDefaultConfig fails, DescribeInstances fails, or DescribeInstances  *)
(* returns reservations.  A call that is in flight may stay in flight for  *)
(* ever: Spec states no fairness, FairSpec states that every step that can *)
(* be taken is taken.                                                      *)
(***************************************************************************)
EXTENDS Integers, Sequences, FiniteSets, TLC

VARIABLES
    pc,        \* position of main: "start" "seq" "seqCall" "par" "par2" "wait" "ret" "exit"
    file,      \* environment: the configuration file that ini.Load reads
    profiles,  \* main.go:73  the slice returned by getProfiles
    i,         \* index of the outer range loop (profiles), 1-based
    j,         \* index of the inner range loop (regions), 1-based
    stdout,    \* lines written to os.Stdout, in order
    stderr,    \* lines written to os.Stderr, in order
    wg,        \* main.go:91  counter of the sync.WaitGroup
    units,     \* goroutines launched at main.go:95, in launch order
    exitCode,  \* -1 while running, then the process exit status
    result,    \* main.go:35  result.Reservations of the call whose loop is followed
    cnt,       \* main.go:40  count, the counter of that call
    scan       \* position of the counting loop of main.go:41-47

vars == <<pc, file, profiles, i, j, stdout, stderr, wg, units, exitCode,
          result, cnt, scan>>

(***************************************************************************)
(* Bounds and input universe                                               *)
(***************************************************************************)
\* Largest number of sections after DEFAULT in the configuration file of a
\* run of the whole program.
MaxSections == 1

\* Largest number of sections after DEFAULT in the configuration file of a
\* run that is followed up to the end of the sequential loop.
MaxSeqSections == 2

\* Largest number of reservations in an answer of DescribeInstances to a call
\* of a run of main, and of instances in a reservation.
MaxHeld == 1

\* main.go:18-22
regions == <<"us-east-1", "eu-west-1", "eu-west-2">>

\* Section names a configuration file may hold, split at the "profile " prefix.
DefaultSection == [prefix |-> "", rest |-> "DEFAULT"]

SectionNames ==
    { [prefix |-> "profile ", rest |-> "prod"],
      [prefix |-> "profile ", rest |-> "dev"],
      [prefix |-> "", rest |-> "default"] }

ProfileNames == { s.rest : s \in { t \in SectionNames : t.prefix = "profile " } }

RegionSet == { regions[k] : k \in 1..Len(regions) }

AllTasks == ProfileNames \X RegionSet

\* Sequences of distinct elements of S, of length at most n (ini.Load merges
\* sections of the same name, so Sections() holds distinct names).
DistinctSeqs(S, n) ==
    UNION { { s \in [1..k -> S] : \A a, b \in 1..k : a # b => s[a] # s[b] }
            : k \in 0..n }

\* ini.Load: either an error, or the sections in file order after DEFAULT.
ConfigFiles(n) ==
    { [loadErr |-> TRUE, sections |-> <<>>] }
    \cup { [loadErr |-> FALSE, sections |-> <<DefaultSection>> \o s]
           : s \in DistinctSeqs(SectionNames, n) }

\* An instance is the name of its state, or NoState when its State pointer
\* is nil.
NoState == "<nil>"

InstanceStates == {"running", "stopped", NoState}

SeqsUpTo(S, n) == UNION { [1..k -> S] : k \in 0..n }

\* What the SDK answers to one call of listEC2Instances: LoadDefaultConfig
\* returns an error, DescribeInstances returns an error, or DescribeInstances
\* returns reservations, each the sequence of its instances.
Answers ==
    { [err |-> "config", reservations |-> <<>>],
      [err |-> "describe", reservations |-> <<>>] }
    \cup { [err |-> "none", reservations |-> d]
           : d \in SeqsUpTo(SeqsUpTo(InstanceStates, MaxHeld), MaxHeld) }

(***************************************************************************)
(* getProfiles, main.go:52-69                                              *)
(***************************************************************************)
RECURSIVE FilterProfiles(_)
FilterProfiles(sections) ==
    IF sections = <<>> THEN <<>>
    ELSE LET s == Head(sections) IN
         IF s.prefix = "profile "
         THEN <<s.rest>> \o FilterProfiles(Tail(sections))
         ELSE FilterProfiles(Tail(sections))

getProfiles(f) ==
    IF f.loadErr
    THEN [profiles |-> <<>>, err |-> TRUE]
    ELSE [profiles |-> FilterProfiles(f.sections), err |-> FALSE]

(***************************************************************************)
(* listEC2Instances, main.go:24-50                                         *)
(***************************************************************************)
\* Mutant of CountInstances: every instance is counted, whatever its state.
CountInstancesAll(instances) == Len(instances)

RECURSIVE CountInstances(_)
CountInstances(instances) ==
    IF instances = <<>> THEN 0
    ELSE (IF Head(instances) = "running" THEN 1 ELSE 0)
         + CountInstances(Tail(instances))

RECURSIVE CountRunning(_)
CountRunning(reservations) ==
    IF reservations = <<>> THEN 0
    ELSE CountInstances(Head(reservations)) + CountRunning(Tail(reservations))

\* main.go:43: some instance of the reservations has a nil State, which
\* instance.State.Name dereferences.
HasNoState(reservations) ==
    \E a \in DOMAIN reservations :
        \E b \in DOMAIN reservations[a] : reservations[a][b] = NoState

NilErr == [kind |-> "nil", profile |-> "", region |-> ""]

ResultLine(profile, region, count) ==
    [kind |-> "result", profile |-> profile, region |-> region, count |-> count]

DoneLine == [kind |-> "done", profile |-> "", region |-> "", count |-> 0]

FatalLine == [kind |-> "fatal", profile |-> "", region |-> ""]

\* The message of the Go runtime for an unrecovered panic.
PanicLine == [kind |-> "panic", profile |-> "", region |-> ""]

\* The three exits of a call that received answer: it returns an error and
\* prints nothing, it panics at the instance without State and prints
\* nothing, or it prints its line and returns nil.
listEC2Instances(region, profile, answer) ==
    CASE answer.err = "config" ->
             [out |-> <<>>, panic |-> FALSE,
              err |-> [kind |-> "config error", profile |-> profile, region |-> region]]
      [] answer.err = "describe" ->
             [out |-> <<>>, panic |-> FALSE,
              err |-> [kind |-> "describe error", profile |-> profile, region |-> region]]
      [] answer.err = "none" /\ HasNoState(answer.reservations) ->
             [out |-> <<>>, panic |-> TRUE, err |-> NilErr]
      [] OTHER ->
             [out |-> <<ResultLine(profile, region, CountRunning(answer.reservations))>>,
              panic |-> FALSE, err |-> NilErr]

\* The counting loop is followed step by step in CountSpec; in a run of main
\* it is the operator CountRunning and the loop position stays idle.
ScanIdle == [res |-> 0, inst |-> 0, st |-> "idle"]

(***************************************************************************)
(* main, main.go:71-107                                                    *)
(***************************************************************************)
Init ==
    /\ pc = "start"
    /\ file \in ConfigFiles(MaxSections)
    /\ profiles = <<>>
    /\ i = 1
    /\ j = 1
    /\ stdout = <<>>
    /\ stderr = <<>>
    /\ wg = 0
    /\ units = <<>>
    /\ exitCode = -1
    /\ result = <<>>
    /\ cnt = 0
    /\ scan = ScanIdle

\* Mutant of NextIndex: the inner loop visits the regions first, last, middle.
NextIndexShuffled(a, b) ==
    CASE b = 1 -> <<a, Len(regions)>>
      [] b = 2 -> <<a + 1, 1>>
      [] OTHER -> <<a, 2>>

\* The nested range loops: the position after (a, b).
NextIndex(a, b) ==
    IF b < Len(regions) THEN <<a, b + 1>> ELSE <<a + 1, 1>>

\* Mutant of GetProfiles: the error is logged and main goes on (log.Printf).
GetProfilesLogOnly ==
    /\ pc = "start"
    /\ LET got == getProfiles(file) IN
       /\ stderr' = IF got.err THEN Append(stderr, FatalLine) ELSE stderr
       /\ profiles' = got.profiles
       /\ pc' = "seq"
    /\ UNCHANGED <<file, i, j, stdout, wg, units, exitCode, result, cnt, scan>>

\* main.go:73-77
GetProfiles ==
    /\ pc = "start"
    /\ LET got == getProfiles(file) IN
       IF got.err
       THEN /\ stderr' = Append(stderr, FatalLine)
            /\ pc' = "exit"
            /\ exitCode' = 1
            /\ UNCHANGED profiles
       ELSE /\ profiles' = got.profiles
            /\ pc' = "seq"
            /\ UNCHANGED <<stderr, exitCode>>
    /\ UNCHANGED <<file, i, j, stdout, wg, units, result, cnt, scan>>

\* main.go:80-82: the loop enters listEC2Instances(region, profile)
SeqCall ==
    /\ pc = "seq"
    /\ i <= Len(profiles)
    /\ pc' = "seqCall"
    /\ UNCHANGED <<file, profiles, i, j, stdout, stderr, wg, units, exitCode, result, cnt, scan>>

\* Where the sequential loop goes after a call returned err.
SeqAfter(err) == NextIndex(i, j)

\* main.go:82-85: the call ends.  It returns, and an error is written to
\* stderr; or it panics in the goroutine of main, which defers nothing: the
\* runtime writes its message and the process exits with status 2.  The call
\* is taken in one step unless its counting loop is followed (CountSpec).
SeqReturn ==
    /\ pc = "seqCall"
    /\ scan = ScanIdle
    /\ \E answer \in Answers :
         LET res == listEC2Instances(regions[j], profiles[i], answer)
             nxt == SeqAfter(res.err)
         IN IF res.panic
            THEN /\ stderr' = Append(stderr, PanicLine)
                 /\ exitCode' = 2
                 /\ pc' = "exit"
                 /\ UNCHANGED <<i, j, stdout>>
            ELSE /\ stdout' = stdout \o res.out
                 /\ stderr' = IF res.err # NilErr THEN Append(stderr, res.err) ELSE stderr
                 /\ i' = nxt[1]
                 /\ j' = nxt[2]
                 /\ pc' = "seq"
                 /\ UNCHANGED exitCode
    /\ UNCHANGED <<file, profiles, wg, units, result, cnt, scan>>

\* main.go:86-88: the loop is over, the first "Done in" line
SeqDone ==
    /\ pc = "seq"
    /\ i > Len(profiles)
    /\ stdout' = Append(stdout, DoneLine)
    /\ pc' = "par"
    /\ i' = 1
    /\ j' = 1
    /\ UNCHANGED <<file, profiles, stderr, wg, units, exitCode, result, cnt, scan>>

\* main.go:95,100: the goroutine created by go func(p, r string){...}(profile,
\* region), with its parameters and its local err, which is nil until the
\* call returns
NewUnit(profile, region) ==
    [p |-> profile, r |-> region, st |-> "ready", err |-> NilErr]

\* Mutant of LoopBody: the goroutine is started before the counter is raised.
LoopBodyGoFirst == <<"go", "wg.Add">>

\* main.go:94-95: the statements of the body of the inner loop of the
\* fan-out, in program order
LoopBody == <<"wg.Add", "go">>

\* The statement of the body main is at: pc = "par" before the first,
\* pc = "par2" between the first and the second.
BodyPos == IF pc = "par2" THEN 2 ELSE 1

\* main.go:92-93: after a statement of the body comes the next statement or,
\* after the last, the next pair of the range loops
AfterStatement ==
    IF BodyPos < Len(LoopBody)
    THEN /\ pc' = "par2"
         /\ UNCHANGED <<i, j>>
    ELSE /\ pc' = "par"
         /\ i' = NextIndex(i, j)[1]
         /\ j' = NextIndex(i, j)[2]

\* Mutant of WgAdd: a semaphore admits two units in flight.
WgAddCapped ==
    /\ pc \in {"par", "par2"}
    /\ i <= Len(profiles)
    /\ LoopBody[BodyPos] = "wg.Add"
    /\ wg < 2
    /\ wg' = wg + 1
    /\ AfterStatement
    /\ UNCHANGED <<file, profiles, stdout, stderr, units, exitCode, result, cnt, scan>>

\* main.go:94: wg.Add(1)
WgAdd ==
    /\ pc \in {"par", "par2"}
    /\ i <= Len(profiles)
    /\ LoopBody[BodyPos] = "wg.Add"
    /\ wg' = wg + 1
    /\ AfterStatement
    /\ UNCHANGED <<file, profiles, stdout, stderr, units, exitCode, result, cnt, scan>>

\* Mutant of Launch: the fan-out does not wait for the sequential loop.
LaunchEarly ==
    /\ pc \in {"seq", "par", "par2"}
    /\ i <= Len(profiles)
    /\ pc # "seq" => LoopBody[BodyPos] = "go"
    /\ units' = Append(units, NewUnit(profiles[i], regions[j]))
    /\ IF pc = "seq" THEN UNCHANGED <<pc, i, j>> ELSE AfterStatement
    /\ UNCHANGED <<file, profiles, stdout, stderr, wg, exitCode, result, cnt, scan>>

\* main.go:95-100: the go statement; the goroutine receives the values that
\* profile and region hold now
Launch ==
    /\ pc \in {"par", "par2"}
    /\ i <= Len(profiles)
    /\ LoopBody[BodyPos] = "go"
    /\ units' = Append(units, NewUnit(profiles[i], regions[j]))
    /\ AfterStatement
    /\ UNCHANGED <<file, profiles, stdout, stderr, wg, exitCode, result, cnt, scan>>

\* main.go:102-104: the launching loop is over, main enters wg.Wait()
LaunchEnd ==
    /\ pc = "par"
    /\ i > Len(profiles)
    /\ pc' = "wait"
    /\ UNCHANGED <<file, profiles, i, j, stdout, stderr, wg, units, exitCode, result, cnt, scan>>

\* Mutant of UnitStart: a goroutine starts when the units launched before it
\* are over.
UnitStartInOrder(u) ==
    /\ exitCode = -1
    /\ u \in 1..Len(units)
    /\ units[u].st = "ready"
    /\ \A v \in 1..(u - 1) : units[v].st \in {"done", "unwound"}
    /\ units' = [units EXCEPT ![u].st = "call"]
    /\ UNCHANGED <<pc, file, profiles, i, j, stdout, stderr, wg, exitCode, result, cnt, scan>>

\* main.go:95-97: the goroutine starts and enters listEC2Instances(r, p)
UnitStart(u) ==
    /\ exitCode = -1
    /\ u \in 1..Len(units)
    /\ units[u].st = "ready"
    /\ units' = [units EXCEPT ![u].st = "call"]
    /\ UNCHANGED <<pc, file, profiles, i, j, stdout, stderr, wg, exitCode, result, cnt, scan>>

\* Mutant of UnitCall: the arguments are passed in parameter order (p, r).
UnitCallSwapped(unit, answer) == listEC2Instances(unit.p, unit.r, answer)

\* main.go:97: the call a goroutine makes with its parameters p and r
UnitCall(unit, answer) == listEC2Instances(unit.r, unit.p, answer)

\* Mutant of UnitReturn: a failing unit cancels its siblings (errgroup
\* style): they give up their call and go to their deferred wg.Done().
UnitReturnCancelsSiblings(u) ==
    /\ exitCode = -1
    /\ u \in 1..Len(units)
    /\ units[u].st = "call"
    /\ \E answer \in Answers :
         LET res == UnitCall(units[u], answer)
         IN IF res.panic
            THEN /\ units' = [units EXCEPT ![u].st = "panicked"]
                 /\ UNCHANGED <<stdout, stderr>>
            ELSE /\ stdout' = stdout \o res.out
                 /\ stderr' = IF res.err # NilErr THEN Append(stderr, res.err) ELSE stderr
                 /\ units' = IF res.err # NilErr
                             THEN [v \in DOMAIN units |->
                                     IF units[v].st \in {"ready", "call"} \/ v = u
                                     THEN [units[v] EXCEPT !.st = "written"]
                                     ELSE units[v]]
                             ELSE [units EXCEPT ![u].st = "written"]
    /\ UNCHANGED <<pc, file, profiles, i, j, wg, exitCode, result, cnt, scan>>

\* main.go:97-99 with main.go:43 and 48: the call ends.  It returns, its line
\* is on stdout or fmt.Fprintln writes its error to stderr; or it panics and
\* nothing is written.  The deferred call is still to run in both cases.
UnitReturn(u) ==
    /\ exitCode = -1
    /\ u \in 1..Len(units)
    /\ units[u].st = "call"
    /\ \E answer \in Answers :
         LET res == UnitCall(units[u], answer)
         IN IF res.panic
            THEN /\ units' = [units EXCEPT ![u].st = "panicked"]
                 /\ UNCHANGED <<stdout, stderr>>
            ELSE /\ stdout' = stdout \o res.out
                 /\ stderr' = IF res.err # NilErr THEN Append(stderr, res.err) ELSE stderr
                 /\ units' = [units EXCEPT ![u].st = "written", ![u].err = res.err]
    /\ UNCHANGED <<pc, file, profiles, i, j, wg, exitCode, result, cnt, scan>>

\* Mutant of UnitDone: wg.Done() is not deferred and the error path skips it.
UnitDoneSkippedOnError(u) ==
    /\ exitCode = -1
    /\ u \in 1..Len(units)
    /\ units[u].st \in {"written", "panicked"}
    /\ units' = [units EXCEPT ![u].st = IF units[u].st = "written" THEN "done" ELSE "unwound"]
    /\ wg' = IF units[u].err # NilErr THEN wg ELSE wg - 1
    /\ UNCHANGED <<pc, file, profiles, i, j, stdout, stderr, exitCode, result, cnt, scan>>

\* main.go:96: the deferred wg.Done() runs when the body is over and also
\* when the goroutine panics, before the runtime ends the process
UnitDone(u) ==
    /\ exitCode = -1
    /\ u \in 1..Len(units)
    /\ units[u].st \in {"written", "panicked"}
    /\ units' = [units EXCEPT ![u].st = IF units[u].st = "written" THEN "done" ELSE "unwound"]
    /\ wg' = wg - 1
    /\ UNCHANGED <<pc, file, profiles, i, j, stdout, stderr, exitCode, result, cnt, scan>>

\* main.go:43: nothing recovers the panic of a goroutine; once its deferred
\* call has run, the runtime writes its message and the process exits with
\* status 2, unless main has returned before
UnitCrash(u) ==
    /\ exitCode = -1
    /\ u \in 1..Len(units)
    /\ units[u].st = "unwound"
    /\ stderr' = Append(stderr, PanicLine)
    /\ exitCode' = 2
    /\ pc' = "exit"
    /\ UNCHANGED <<file, profiles, i, j, stdout, wg, units, result, cnt, scan>>

\* Mutant of WaitCanReturn: Wait blocks until some unit has signalled.
WaitNeedsASignal == wg = 0 /\ units # <<>>

\* wg.Wait() returns when the counter is zero.
WaitCanReturn == wg = 0

\* main.go:104-106: the barrier opens, the second "Done in" line
WaitReturn ==
    /\ pc = "wait"
    /\ WaitCanReturn
    /\ stdout' = Append(stdout, DoneLine)
    /\ pc' = "ret"
    /\ UNCHANGED <<file, profiles, i, j, stderr, wg, units, exitCode, result, cnt, scan>>

\* main.go:107: main returns and the process exits with status 0.  When a
\* goroutine has panicked and run its deferred call, this step races with the
\* crash of the process (UnitCrash): the runtime yields to the panicking
\* goroutine a bounded number of times and then exits with status 0.
MainReturn ==
    /\ pc = "ret"
    /\ pc' = "exit"
    /\ exitCode' = 0
    /\ UNCHANGED <<file, profiles, i, j, stdout, stderr, wg, units, result, cnt, scan>>

MaxUnits == Cardinality(AllTasks)

Main ==
    \/ GetProfiles \/ SeqCall \/ SeqReturn \/ SeqDone
    \/ WgAdd \/ Launch \/ LaunchEnd \/ WaitReturn \/ MainReturn

Next ==
    \/ GetProfiles
    \/ SeqCall
    \/ SeqReturn
    \/ SeqDone
    \/ WgAdd
    \/ Launch
    \/ LaunchEnd
    \/ WaitReturn
    \/ MainReturn
    \/ \E u \in 1..MaxUnits : UnitStart(u)
    \/ \E u \in 1..MaxUnits : UnitReturn(u)
    \/ \E u \in 1..MaxUnits : UnitDone(u)
    \/ \E u \in 1..MaxUnits : UnitCrash(u)

Spec == Init /\ [][Next]_vars

\* Only main is scheduled fairly: a goroutine may never run and a call may
\* never return.
MainFairSpec == Spec /\ WF_vars(Main)

\* Every call ends and the scheduler runs a goroutine that can run: a step
\* is taken whenever one is possible.
FairSpec ==
    /\ Spec
    /\ WF_vars(Next)

(***************************************************************************)
(* The sequential runner alone, main.go:73-87, on configuration files with *)
(* up to MaxSeqSections sections: the run is followed until the first      *)
(* "Done in" line.                                                         *)
(***************************************************************************)
SeqInit ==
    /\ pc = "start"
    /\ file \in ConfigFiles(MaxSeqSections)
    /\ profiles = <<>>
    /\ i = 1
    /\ j = 1
    /\ stdout = <<>>
    /\ stderr = <<>>
    /\ wg = 0
    /\ units = <<>>
    /\ exitCode = -1
    /\ result = <<>>
    /\ cnt = 0
    /\ scan = ScanIdle

SeqNext ==
    \/ GetProfiles
    \/ SeqCall
    \/ SeqReturn
    \/ SeqDone

SeqSpec == SeqInit /\ [][SeqNext]_vars

(***************************************************************************)
(* The counting loop of listEC2Instances, main.go:40-48, step by step, on  *)
(* every DescribeInstances output within the bounds.                       *)
(***************************************************************************)
MaxReservations == 2

MaxInstances == 2

DescribeOutputs == SeqsUpTo(SeqsUpTo(InstanceStates, MaxInstances), MaxReservations)

\* What the call that is followed leaves alone.
progVars == <<file, profiles, wg, units>>

\* The call followed is the first call of the sequential loop of a run with
\* one profile, listEC2Instances(regions[1], profiles[1]), at the point where
\* DescribeInstances has returned result without error.
CountInit ==
    /\ pc = "seqCall"
    /\ file \in { f \in ConfigFiles(1) : Len(getProfiles(f).profiles) = 1 }
    /\ profiles = getProfiles(file).profiles
    /\ i = 1
    /\ j = 1
    /\ stdout = <<>>
    /\ stderr = <<>>
    /\ wg = 0
    /\ units = <<>>
    /\ exitCode = -1
    /\ result \in DescribeOutputs
    /\ cnt = 0
    /\ scan = [res |-> 1, inst |-> 1, st |-> "loop"]

\* main.go:42-46: one instance whose State is set
ScanInstance ==
    /\ pc = "seqCall"
    /\ scan.st = "loop"
    /\ scan.res <= Len(result)
    /\ scan.inst <= Len(result[scan.res])
    /\ result[scan.res][scan.inst] # NoState
    /\ cnt' = cnt + CountInstances(<<result[scan.res][scan.inst]>>)
    /\ scan' = [scan EXCEPT !.inst = scan.inst + 1]
    /\ UNCHANGED <<progVars, pc, i, j, stdout, stderr, exitCode, result>>

\* main.go:43: instance.State is nil, instance.State.Name panics; nothing
\* recovers, the runtime writes its message and the process exits with 2
ScanPanic ==
    /\ pc = "seqCall"
    /\ scan.st = "loop"
    /\ scan.res <= Len(result)
    /\ scan.inst <= Len(result[scan.res])
    /\ result[scan.res][scan.inst] = NoState
    /\ scan' = [scan EXCEPT !.st = "panic"]
    /\ stderr' = Append(stderr, PanicLine)
    /\ exitCode' = 2
    /\ pc' = "exit"
    /\ UNCHANGED <<progVars, i, j, stdout, result, cnt>>

\* main.go:41-42: the instances of a reservation are exhausted
ScanNextReservation ==
    /\ pc = "seqCall"
    /\ scan.st = "loop"
    /\ scan.res <= Len(result)
    /\ scan.inst > Len(result[scan.res])
    /\ scan' = [scan EXCEPT !.res = scan.res + 1, !.inst = 1]
    /\ UNCHANGED <<progVars, pc, i, j, stdout, stderr, exitCode, result, cnt>>

\* main.go:47-49 and 82: the reservations are exhausted, fmt.Printf prints
\* count, the call returns nil and the loop of main goes on
ScanEnd ==
    /\ pc = "seqCall"
    /\ scan.st = "loop"
    /\ scan.res > Len(result)
    /\ stdout' = Append(stdout, ResultLine(profiles[i], regions[j], cnt))
    /\ i' = SeqAfter(NilErr)[1]
    /\ j' = SeqAfter(NilErr)[2]
    /\ pc' = "seq"
    /\ scan' = ScanIdle
    /\ UNCHANGED <<progVars, stderr, exitCode, result, cnt>>

CountNext ==
    \/ ScanInstance
    \/ ScanPanic
    \/ ScanNextReservation
    \/ ScanEnd

CountSpec == CountInit /\ [][CountNext]_vars

(***************************************************************************)
(* Vocabulary of the properties                                            *)
(***************************************************************************)
NumRegions == Len(regions)

\* The n-th pair of the nested order (outer profiles, inner regions).
TaskAt(n) == <<profiles[((n - 1) \div NumRegions) + 1], regions[((n - 1) % NumRegions) + 1]>>

NumTasks == Len(profiles) * NumRegions

Product == { TaskAt(n) : n \in 1..NumTasks }

PairOf(line) == <<line.profile, line.region>>

ErrorKinds == {"config error", "describe error"}

ResultLines == { k \in DOMAIN stdout : stdout[k].kind = "result" }

ErrorLines == { k \in DOMAIN stderr : stderr[k].kind \in ErrorKinds }

DoneCount == Cardinality({ k \in DOMAIN stdout : stdout[k].kind = "done" })

\* Outcomes written so far for a pair: success lines plus error lines.
Successes(t) == Cardinality({ k \in ResultLines : PairOf(stdout[k]) = t })

Failures(t) == Cardinality({ k \in ErrorLines : PairOf(stderr[k]) = t })

Outcomes(t) == Successes(t) + Failures(t)

\* Every pair that any line names.
NamedPairs ==
    { PairOf(stdout[k]) : k \in ResultLines } \cup { PairOf(stderr[k]) : k \in ErrorLines }

Fatal == exitCode = 1

\* The sequential loop is over and its "Done in" line is printed.
SeqFinished == DoneCount >= 1

\* The parallel runner is over: wg.Wait() has returned and the second
\* "Done in" line is printed.
ParFinished == DoneCount = 2

\* Units whose body has ended and whose deferred wg.Done() has run.
DoneUnits == { u \in DOMAIN units : units[u].st = "done" }

\* Units whose call has returned and whose outcome is written.
WrittenUnits == { u \in DOMAIN units : units[u].st \in {"written", "done"} }

\* Units launched whose deferred wg.Done() has not run.
Pending == { u \in DOMAIN units : units[u].st \in {"ready", "call", "written", "panicked"} }

\* The position of the first "Done in" line.
FirstDone ==
    CHOOSE k \in DOMAIN stdout :
        stdout[k].kind = "done" /\ \A m \in 1..(k - 1) : stdout[m].kind # "done"

\* The number of error lines of the sequential pass, which wrote NumTasks
\* outcomes, FirstDone - 1 of them on stdout.
SeqErrors == NumTasks - (FirstDone - 1)

(***************************************************************************)
(* C1. Each runner attempts every pair of profiles x regions exactly once: *)
(* when the sequential loop is over every pair of the product has exactly  *)
(* one outcome (a success line or an error line) and no other pair has     *)
(* any; when the parallel runner is over every pair has exactly one more,  *)
(* so that each pass accounts for exactly P*R outcomes.                    *)
(***************************************************************************)
ExactlyOncePerRunner ==
    /\ (SeqFinished /\ WrittenUnits = {}) =>
          /\ \A t \in Product : Outcomes(t) = 1
          /\ NamedPairs = Product
          /\ Cardinality(ResultLines) + Cardinality(ErrorLines) = NumTasks
    /\ ParFinished =>
          /\ \A t \in Product : Outcomes(t) = 2
          /\ NamedPairs = Product
          /\ Cardinality(ResultLines) + Cardinality(ErrorLines) = 2 * NumTasks

(***************************************************************************)
(* C2. Completion barrier: the second "Done in" line is on stdout only     *)
(* when every pair has been launched and every launched unit has written   *)
(* its outcome and completed; that line is then the last line of stdout    *)
(* and the WaitGroup counter is zero.                                      *)
(***************************************************************************)
CompletionBarrier ==
    DoneCount = 2 =>
        /\ Len(units) = NumTasks
        /\ \A u \in DOMAIN units : units[u].st = "done"
        /\ \A u \in DOMAIN units : Outcomes(<<units[u].p, units[u].r>>) = 2
        /\ stdout[Len(stdout)] = DoneLine
        /\ wg = 0
        /\ pc \in {"ret", "exit"}

(***************************************************************************)
(* C3. Capture correctness: the u-th unit holds the u-th pair of the       *)
(* nested order, whatever the position of the launching loop; units hold   *)
(* distinct pairs; every line names, in its profile and region fields, a   *)
(* profile of the profile list and a region of the region list; and a pair *)
(* has a second outcome exactly when the call of the unit holding it has   *)
(* returned, whether or not its deferred wg.Done() has run yet.             *)
(***************************************************************************)
CaptureCorrect ==
    /\ \A u \in DOMAIN units :
          <<units[u].p, units[u].r>> = TaskAt(u)
    /\ \A u, v \in DOMAIN units :
          u # v => <<units[u].p, units[u].r>> # <<units[v].p, units[v].r>>
    /\ \A t \in NamedPairs :
          /\ \E a \in DOMAIN profiles : profiles[a] = t[1]
          /\ \E b \in DOMAIN regions : regions[b] = t[2]
    /\ SeqFinished =>
          \A t \in Product :
              Outcomes(t) = 1 + Cardinality({ u \in WrittenUnits : <<units[u].p, units[u].r>> = t })

\* The second unit has written its line before its wg.Done() while the
\* first one has not started and the loop stands before the go statement of
\* the third pair.
CaptureWitness ==
    /\ pc = "par2"
    /\ Len(units) = 2
    /\ units[1].st = "ready"
    /\ units[2].st = "written"
    /\ Successes(<<units[2].p, units[2].r>>) = 2

(***************************************************************************)
(* C4. Fault isolation: in each pass, with F the pairs whose call returned *)
(* an error in that pass (the pairs of the error lines of the pass), the   *)
(* runner, once over, has written one success line for every pair outside  *)
(* F and one error line for every pair in F: P*R - |F| success lines and   *)
(* |F| error lines.                                                        *)
(***************************************************************************)
FaultIsolation ==
    /\ (SeqFinished /\ WrittenUnits = {}) =>
          LET F == { PairOf(stderr[k]) : k \in ErrorLines } IN
          /\ \A t \in Product \ F : Successes(t) = 1 /\ Failures(t) = 0
          /\ \A t \in F : Successes(t) = 0 /\ Failures(t) = 1
          /\ Cardinality(ResultLines) = NumTasks - Cardinality(F)
          /\ Cardinality(ErrorLines) = Cardinality(F)
    /\ ParFinished =>
          LET parErr == { k \in ErrorLines : k > SeqErrors }
              parOut == { k \in ResultLines : k > FirstDone }
              F == { PairOf(stderr[k]) : k \in parErr }
          IN /\ F \subseteq Product
             /\ { PairOf(stdout[k]) : k \in parOut } = Product \ F
             /\ Cardinality(parOut) = NumTasks - Cardinality(F)
             /\ Cardinality(parErr) = Cardinality(F)

(***************************************************************************)
(* C5. Sequential ordering and exclusivity: while the sequential loop is   *)
(* at its k+1-th pair, at most one task is in flight and the lines written *)
(* are exactly the outcomes of the first k pairs of the nested order       *)
(* (outer profiles, inner regions), one line per pair, successes on stdout *)
(* and errors on stderr, each stream in the nested order; when the loop is *)
(* over, all P*R outcomes stand in that order before the "Done in" line.   *)
(***************************************************************************)
IndexOf(t) == CHOOSE n \in 1..NumTasks : TaskAt(n) = t

InNestedOrder(lines) ==
    \A a, b \in DOMAIN lines :
        a < b => IndexOf(PairOf(lines[a])) < IndexOf(PairOf(lines[b]))

OutcomesOfFirst(k, out, err) ==
    /\ \A a \in DOMAIN out : out[a].kind = "result"
    /\ \A a \in DOMAIN err : err[a].kind \in ErrorKinds
    /\ Len(out) + Len(err) = k
    /\ { PairOf(out[a]) : a \in DOMAIN out } \cup { PairOf(err[a]) : a \in DOMAIN err }
          = { TaskAt(n) : n \in 1..k }
    /\ InNestedOrder(out)
    /\ InNestedOrder(err)

InFlight ==
    (IF pc = "seqCall" THEN 1 ELSE 0) + Cardinality(Pending)

SequentialOrder ==
    /\ pc \in {"seq", "seqCall"} =>
          LET k == (i - 1) * NumRegions + (j - 1) IN
          /\ k \in 0..NumTasks
          /\ pc = "seqCall" => k < NumTasks
          /\ InFlight <= 1
          /\ OutcomesOfFirst(k, stdout, stderr)
    /\ (pc \in {"par", "par2", "wait"} /\ WrittenUnits = {}) =>
          /\ stdout[Len(stdout)] = DoneLine
          /\ OutcomesOfFirst(NumTasks, SubSeq(stdout, 1, Len(stdout) - 1), stderr)

\* The fifth pair is in flight after the failure of the second pair and the
\* successes of the three others.
SequentialOrderWitness ==
    /\ pc = "seqCall"
    /\ i = 2
    /\ j = 2
    /\ Len(stdout) = 3
    /\ Len(stderr) = 1
    /\ PairOf(stderr[1]) = TaskAt(2)
    /\ PairOf(stdout[2]) = TaskAt(3)
    /\ PairOf(stdout[3]) = TaskAt(4)

(***************************************************************************)
(* C6. The two runners never overlap: while the sequential loop runs       *)
(* no unit exists and the WaitGroup counter is zero; once the fan-out has  *)
(* raised the counter or launched a unit (or main waits) every pair has    *)
(* its sequential outcome and the first "Done in" line stands on stdout    *)
(* right after the sequential success lines, before any parallel line.     *)
(***************************************************************************)
RunnersDoNotOverlap ==
    /\ pc \in {"start", "seq", "seqCall"} =>
          /\ units = <<>>
          /\ wg = 0
          /\ DoneCount = 0
    /\ (units # <<>> \/ wg # 0 \/ pc \in {"par2", "wait", "ret"}) =>
          /\ pc \in {"par", "par2", "wait", "ret", "exit"}
          /\ DoneCount >= 1
          /\ \A t \in Product : Outcomes(t) >= 1
          /\ \A k \in 1..(FirstDone - 1) : stdout[k].kind = "result"
          /\ SeqErrors \in 0..Len(stderr)
          /\ \A k \in 1..SeqErrors : stderr[k].kind \in ErrorKinds
          /\ { PairOf(stdout[k]) : k \in 1..(FirstDone - 1) }
                \cup { PairOf(stderr[k]) : k \in 1..SeqErrors } = Product

\* The first unit has just been launched, after a full sequential pass with
\* one failure.
RunnersDoNotOverlapWitness ==
    /\ pc = "par"
    /\ Len(units) = 1
    /\ wg = 1
    /\ Len(profiles) = 1
    /\ Len(stdout) = 3
    /\ Len(stderr) = 1

(***************************************************************************)
(* C7. Fatal configuration error: when the profile source has failed (the  *)
(* fatal line is on stderr) the program has exited with status 1, nothing  *)
(* is on stdout, the fatal line is the only line of stderr, no unit was    *)
(* launched and no further step is possible; status 1 arises in no other   *)
(* way.                                                                    *)
(***************************************************************************)
FatalConfigError ==
    /\ (\E k \in DOMAIN stderr : stderr[k] = FatalLine) =>
          /\ pc = "exit"
          /\ exitCode = 1
          /\ stdout = <<>>
          /\ stderr = <<FatalLine>>
          /\ profiles = <<>>
          /\ units = <<>>
          /\ wg = 0
          /\ ~ ENABLED Next
    /\ exitCode = 1 => stderr = <<FatalLine>>

\* The profile source failed.
FatalConfigErrorWitness ==
    /\ exitCode = 1
    /\ pc = "exit"
    /\ stderr = <<FatalLine>>

(***************************************************************************)
(* C8. Completion despite task failures: when the profile source has       *)
(* succeeded, every call ends and every goroutine is scheduled, the        *)
(* program eventually exits with status 0 with both "Done in" lines        *)
(* printed, whatever calls return an error; the one other end of a run is  *)
(* the exit with status 2 of a call that did not return but panicked.      *)
(***************************************************************************)
CompletesDespiteFailures ==
    (pc = "seq") ~> \/ (pc = "exit" /\ exitCode = 0 /\ DoneCount = 2)
                    \/ exitCode = 2

\* The program has exited normally although every task failed in both passes.
CompletesDespiteFailuresWitness ==
    /\ pc = "exit"
    /\ exitCode = 0
    /\ DoneCount = 2
    /\ Len(profiles) = 1
    /\ Cardinality(ErrorLines) = 6
    /\ ResultLines = {}

(***************************************************************************)
(* C9. Empty-profile scenario: when the profile source has returned no     *)
(* profile and no error, no call is ever in flight, no result line and no  *)
(* error line is written, no unit is launched, the counter stays zero,     *)
(* main is never blocked (wg.Wait() can return at once) and the program    *)
(* exits with status 0 with exactly the two "Done in" lines on stdout.     *)
(***************************************************************************)
EmptyProfiles ==
    (pc # "start" /\ ~Fatal /\ profiles = <<>>) =>
        /\ pc \in {"seq", "par", "wait", "ret", "exit"}
        /\ ResultLines = {}
        /\ stderr = <<>>
        /\ units = <<>>
        /\ wg = 0
        /\ pc = "seq" => stdout = <<>>
        /\ pc \in {"par", "wait"} => stdout = <<DoneLine>>
        /\ pc = "wait" => ENABLED WaitReturn
        /\ pc # "exit" => ENABLED Main
        /\ pc \in {"ret", "exit"} => stdout = <<DoneLine, DoneLine>>
        /\ pc = "exit" => exitCode = 0

\* The run with no profile has ended.
EmptyProfilesWitness ==
    /\ pc = "exit"
    /\ exitCode = 0
    /\ profiles = <<>>
    /\ stdout = <<DoneLine, DoneLine>>
    /\ stderr = <<>>

(***************************************************************************)
(* C10. No timeout and no cancellation: while a sequential call is in      *)
(* flight the only step the program can take is the end of that call, so   *)
(* no later task is attempted; while a launched unit has not completed the *)
(* second "Done in" line is not printed and main, once in wg.Wait(), has   *)
(* no step; a launched unit keeps its pair, changes state only by its own  *)
(* steps (start, end of its call with its own outcome written when the     *)
(* call returns, deferred wg.Done()), and no step changes two units.       *)
(***************************************************************************)
StallsWhileInFlight ==
    /\ pc = "seqCall" =>
          ~ ENABLED (GetProfiles \/ SeqCall \/ SeqDone \/ WgAdd \/ Launch
                        \/ LaunchEnd \/ WaitReturn \/ MainReturn)
    /\ Pending # {} => (pc \in {"par", "par2", "wait", "exit"} /\ DoneCount = 1)
    /\ (pc = "wait" /\ Pending # {}) => ~ ENABLED Main

RunningAt ==
    { pos \in (1..Len(result)) \X (1..MaxInstances + 1) :
        /\ pos[2] <= Len(result[pos[1]])
        /\ result[pos[1]][pos[2]] = "running" }

Visited(pos) ==
    \/ pos[1] < scan.res
    \/ pos[1] = scan.res /\ pos[2] < scan.inst

\* The call that was followed has returned to the loop of main.
Returned == pc = "seq" /\ scan = ScanIdle

CountCorrect ==
    /\ scan.st = "loop" =>
          /\ cnt = Cardinality({ pos \in RunningAt : Visited(pos) })
          /\ cnt >= 0
          /\ stdout = <<>>
    /\ Returned =>
          /\ cnt = Cardinality(RunningAt)
          /\ cnt = CountRunning(result)
          /\ cnt >= 0
          /\ (\A a \in DOMAIN result : result[a] = <<>>) => cnt = 0
          /\ stdout = <<ResultLine(profiles[1], regions[1], Cardinality(RunningAt))>>
          /\ stderr = <<>>
          /\ i = 1 /\ j = 2

\* Two reservations with running and stopped instances have been counted
\* and the line is printed.
CountCorrectWitness ==
    /\ Returned
    /\ result = << <<"running", "stopped">>, <<"stopped", "running">> >>
    /\ cnt = 2
    /\ stdout = <<ResultLine("prod", "us-east-1", 2)>>

(***************************************************************************)
(* C12. An instance with no state is left out of the count and the         *)
(* counting operation does not fail: the call never ends in a panic and    *)
(* the process is not ended by it, and when the call has returned the      *)
(* count printed is the number of running instances.                       *)
(***************************************************************************)
NoStateExcluded ==
    /\ scan.st # "panic"
    /\ exitCode # 2
    /\ Returned =>
          /\ cnt = Cardinality(RunningAt)
          /\ \E k \in ResultLines : stdout[k].count = Cardinality(RunningAt)

(***************************************************************************)
(* C13. Exactly one outcome per task, with its own context: every step in  *)
(* which a call ends (in the loop or in a unit) either appends to stdout   *)
(* the one result line of the call's own (profile, region) and leaves      *)
(* stderr alone, or leaves stdout alone and appends to stderr the one      *)
(* error line that carries the call's own (profile, region); no call ends  *)
(* with neither; a step in which no call ends writes no such line.         *)
(***************************************************************************)
OneOutcome(p, r) ==
    \/ /\ stderr' = stderr
       /\ Len(stdout') = Len(stdout) + 1
       /\ SubSeq(stdout', 1, Len(stdout)) = stdout
       /\ stdout'[Len(stdout')].kind = "result"
       /\ PairOf(stdout'[Len(stdout')]) = <<p, r>>
    \/ /\ stdout' = stdout
       /\ Len(stderr') = Len(stderr) + 1
       /\ SubSeq(stderr', 1, Len(stderr)) = stderr
       /\ stderr'[Len(stderr')].kind \in ErrorKinds
       /\ PairOf(stderr'[Len(stderr')]) = <<p, r>>

\* The units whose call ends in the step.
Ending == { u \in DOMAIN units : units[u].st = "call" /\ units'[u].st # "call" }

OneOutcomePerTask ==
    [][ /\ (pc = "seqCall" /\ pc' # "seqCall") => OneOutcome(profiles[i], regions[j])
        /\ \A u \in Ending : OneOutcome(units[u].p, units[u].r)
        /\ (~(pc = "seqCall" /\ pc' # "seqCall") /\ Ending = {}) =>
              /\ Cardinality(ResultLines') = Cardinality(ResultLines)
              /\ Cardinality(ErrorLines') = Cardinality(ErrorLines)
      ]_vars

CompletionsUnordered ==
    exitCode = -1 =>
        \A u \in DOMAIN units :
            /\ units[u].st = "ready" => ENABLED UnitStart(u)
            /\ units[u].st = "call" => ENABLED UnitReturn(u)
            /\ units[u].st = "written" => ENABLED UnitDone(u)

\* Three successful units wrote their lines in the reverse of the order of
\* launch (the order of the lines of the sequential runner).
CompletionsUnorderedWitness ==
    /\ pc = "exit"
    /\ exitCode = 0
    /\ NumTasks = 3
    /\ stderr = <<>>
    /\ \A k \in 1..3 : PairOf(stdout[FirstDone + k]) = PairOf(stdout[FirstDone - k])

(***************************************************************************)
(* C19 as stated. WaitGroup accounting: in every state the counter is the  *)
(* number of units launched whose wg.Done() has not run.                   *)
(***************************************************************************)
CounterIsPending == wg = Cardinality(Pending)

(***************************************************************************)
(* C19. WaitGroup accounting: in every state of the running process the   *)
(* counter is the number of units launched whose deferred wg.Done() has    *)
(* not run (a unit that has written its outcome and not yet run it is      *)
(* still counted), plus one while main stands between wg.Add(1) and the go *)
(* statement; it is never negative and never above P*R, and wg.Wait()      *)
(* cannot return while a launched unit has not started; the counter moves  *)
(* only by +1 in the step of wg.Add(1), which comes before the launch, and *)
(* by -1 in the step of a unit's wg.Done(), which every unit whose call    *)
(* has ended, with a line, an error or a panic, can take in the running    *)
(* process.                                                                *)
(***************************************************************************)
Completing ==
    { u \in DOMAIN units :
        units[u].st \in {"written", "panicked"} /\ units'[u].st \in {"done", "unwound"} }

WaitGroupAccounting ==
    /\ [](/\ exitCode # 2 => wg = Cardinality(Pending) + (IF pc = "par2" THEN 1 ELSE 0)
          /\ wg \in {Cardinality(Pending), Cardinality(Pending) + 1}
          /\ wg >= 0
          /\ wg <= NumTasks
          /\ (\E u \in DOMAIN units : units[u].st = "ready") => ~ ENABLED WaitReturn
          /\ exitCode = -1 =>
                \A u \in DOMAIN units :
                    units[u].st \in {"written", "panicked"} => ENABLED UnitDone(u))
    /\ [][ /\ Completing # {} =>
                /\ Cardinality(Completing) = 1
                /\ wg' = wg - 1
           /\ Len(units') # Len(units) =>
                /\ Len(units') = Len(units) + 1
                /\ wg' = wg
                /\ wg = Cardinality(Pending) + 1
           /\ wg' # wg => (Completing # {} \/ (wg' = wg + 1 /\ Len(units') = Len(units)))
         ]_vars

\* Main stands between wg.Add(1) and the go statement of the third pair: the
\* counter is 2 with one unit counted, which has written its line and not
\* yet run wg.Done(); the other unit completed with an error.
WaitGroupAccountingWitness ==
    /\ pc = "par2"
    /\ wg = 2
    /\ Len(units) = 2
    /\ units[1].st = "done" /\ units[1].err # NilErr
    /\ units[2].st = "written" /\ units[2].err = NilErr

====
